---- MODULE Spec2Model ----
(***************************************************************************)
(* AxSyncPy2 (src/axsyncpy2.py): a downloader that walks directory         *)
(* listings and fetches every file, small files in one stream and large    *)
(* files as byte ranges fetched by a thread pool and concatenated.         *)
(*                                                                         *)
(* The model follows the main thread through process_urls /                *)
(* download_directory / download_file and the pool threads through         *)
(* download_chunk.  The HTTP server, the file system and the interactive   *)
(* prompt are the environment: every answer they can give is a             *)
(* nondeterministic choice.  The file system is shown for the resource     *)
(* being downloaded (its destination path and its .partN paths).           *)
(***************************************************************************)
EXTENDS Integers, Sequences, FiniteSets, TLC

(* ------------------------------ bounds -------------------------------- *)
\* largest --threads value explored
MaxThreads == 3
\* longest resource body served, in bytes
MaxLen == 3
\* number of lines in the --input file
NumUrls == 2
\* number of <a> elements in a directory listing
NumLinks == 2
\* largest total size given to the range planning on its own
MaxTotal == 100

(* ------------------------- program constants -------------------------- *)
\* download_file: `if total_size < 1024 * 1024`
Threshold == 1024 * 1024
\* iter_content(chunk_size=8192)
chunk_size_8192 == 8192
\* headers.get('content-length', 0): the default when the header is absent
default_length == 0

(* ---------------------------- environment ----------------------------- *)
\* a response without a content-length header
NoHeader == -1
\* parts = [None] * num_threads
None == <<>>

Min(a, b) == IF a < b THEN a ELSE b

\* The body of the resource at the server: byte k of the resource is the
\* value k, so a missing, duplicated or misplaced byte is always visible.
Bytes(len) == [k \in 1..len |-> k]

\* What a server may put in content-length for a resource whose body is d:
\* nothing, the real length, or a length of its own around the threshold.
HeadAnswers(d) == {NoHeader, Len(d), Threshold - 1, Threshold}

\* int(response.headers.get('content-length', 0))
content_length(header) == IF header = NoHeader THEN default_length ELSE header

\* os.path.basename / str(): decimal rendering of a part number
Digit(n) == <<"0", "1", "2", "3", "4", "5", "6", "7", "8", "9">>[n + 1]
RECURSIVE Str(_)
Str(n) == IF n < 10 THEN <<Digit(n)>> ELSE Str(n \div 10) \o <<Digit(n % 10)>>

\* Variant: the part number is left out of the name.
part_file_without_number(file_name, part_number) ==
    file_name \o <<".", "p", "a", "r", "t">>

\* f"{file_name}.part{part_number}"
part_file(file_name, part_number) ==
    file_name \o <<".", "p", "a", "r", "t">> \o Str(part_number)

\* The hrefs a listing may hold: none, a sort link, a subdirectory, the
\* parent link and a file.
Hrefs == { <<>>, <<"?", "C">>, <<"s", "/">>, <<".", ".", "/">>, <<"f">> }

\* download_directory: the links that are skipped
skip_link(file_name) ==
    \/ file_name = <<>>
    \/ file_name[1] = "?"
    \/ file_name[Len(file_name)] = "/"
    \/ file_name = <<".", ".", "/">>

(* ---------------------------- file system ----------------------------- *)
\* A file system is a function from the paths that exist to their bytes.
NoFiles == [p \in {} |-> <<>>]
Exists(f, p) == p \in DOMAIN f
\* open(p, 'wb'): create or truncate
Create(f, p) == [q \in (DOMAIN f) \cup {p} |-> IF q = p THEN <<>> ELSE f[q]]
\* f.write(b) on a file opened at p
WriteBytes(f, p, b) == [q \in DOMAIN f |-> IF q = p THEN f[q] \o b ELSE f[q]]
\* os.remove(p)
Remove(f, p) == [q \in (DOMAIN f) \ {p} |-> f[q]]

(* --------------------------- range planning --------------------------- *)
\* Variant: line 60 is missing, the last range is not extended.
RangePlan_last_not_extended(total, n) ==
    LET chunk_size == total \div n
    IN  [i \in 1..n |-> <<(i - 1) * chunk_size, i * chunk_size - 1>>]

\* download_file_multithread, lines 58-60.  ranges[i + 1] is the range of
\* part number i.
RangePlan(total, n) ==
    LET chunk_size == total \div n
        planned == [i \in 1..n |-> <<(i - 1) * chunk_size, i * chunk_size - 1>>]
    IN  [planned EXCEPT ![n] = <<planned[n][1], total - 1>>]

\* The server's answers to GET with `Range: bytes=<start>-<end>` for a body d.
\* A well-formed range inside the body is served (206) and cut at the end of
\* the body; one that starts past the end is refused (416).  A range whose
\* text is not a byte-range-spec (end < start, e.g. "bytes=0--1") is either
\* ignored, the whole body coming back (200), or refused.
\* raise_for_status() turns a refusal into an exception (ok = FALSE).
Refused == [ok |-> FALSE, body |-> <<>>]
Served(b) == [ok |-> TRUE, body |-> b]
RangeAnswers(d, start, end) ==
    IF 0 <= start /\ start <= end
    THEN IF start < Len(d)
         THEN {Served(SubSeq(d, start + 1, Min(end, Len(d) - 1) + 1)), Refused}
         ELSE {Refused}
    ELSE {Served(d), Refused}

\* response.iter_content(chunk_size): the body in pieces of chunk_size bytes
NumChunks(body, size) == (Len(body) + size - 1) \div size
\* the bytes of the first j pieces
FirstChunks(body, size, j) == SubSeq(body, 1, Min(j * size, Len(body)))

(* ------------------------------- state -------------------------------- *)
VARIABLES
    pc,             \* where the main thread is
    mode,           \* "url" (--url) or "input" (--input)
    num_threads,    \* args.threads
    base_exists,    \* whether args.output exists
    folder_exists,  \* whether the current destination_folder exists
    respuesta,      \* the answer typed in the last check_or_create_directory
                    \* call, "" when it did not ask
    urlIdx,         \* process_urls: lines of the input file taken so far
    linkIdx,        \* download_directory: links of the listing taken so far
    file_path,      \* the destination path of the current resource
    data,           \* the body of the current resource at the server
    probe,          \* download_file's HEAD: "pending", "raised", "answered"
    header,         \* the content-length header of that HEAD
    df_total_size,  \* download_file's total_size
    path,           \* "none", "single" or "multi": the branch download_file took
    total_size,     \* download_file_multithread's total_size
    ranges,         \* download_file_multithread's ranges
    futures,        \* the submitted download_chunk calls, by part number + 1
    parts,          \* download_file_multithread's parts
    order,          \* part numbers in the order as_completed yielded them
    pbar,           \* the progress bar: total and n
    resp,           \* download_file_single_thread's response body
    fs,             \* the files of the current resource
    k,              \* combine_parts: index of the part being handled
    copied,         \* combine_parts: paths read into the destination, in order
    removed,        \* combine_parts: paths given to os.remove, in order
    exc,            \* where the exception that ended the job was raised
    result          \* "none", "ok" or "failed": how download_file ended

argVars == <<mode, num_threads>>
batchVars == <<base_exists, folder_exists, respuesta, urlIdx, linkIdx>>
probeVars == <<probe, header, df_total_size, path>>
multiVars == <<total_size, ranges, futures, parts, order>>
combineVars == <<k, copied, removed>>
jobVars == <<file_path, data, probeVars, multiVars, pbar, resp, fs, combineVars,
             exc, result>>
vars == <<pc, argVars, batchVars, jobVars>>

NoPbar == [total |-> 0, n |-> 0]

\* Variant: the counter is set to the amount instead of advanced by it.
pbar_update_overwrites(bar, amount) == [bar EXCEPT !.n = amount]

\* pbar.update(amount)
pbar_update(bar, amount) == [bar EXCEPT !.n = @ + amount]

\* The state of a resource before download_file is called for it.
JobReset(fp, d) ==
    /\ file_path' = fp
    /\ data' = d
    /\ probe' = "pending"
    /\ header' = NoHeader
    /\ df_total_size' = 0
    /\ path' = "none"
    /\ total_size' = 0
    /\ ranges' = <<>>
    /\ futures' = <<>>
    /\ parts' = <<>>
    /\ order' = <<>>
    /\ pbar' = NoPbar
    /\ resp' = <<>>
    /\ fs' = NoFiles
    /\ k' = 0
    /\ copied' = <<>>
    /\ removed' = <<>>
    /\ exc' = "none"
    /\ result' = "none"

Init ==
    /\ pc = "main"
    /\ mode \in {"url", "input"}
    /\ num_threads \in 1..MaxThreads
    /\ base_exists \in BOOLEAN
    /\ folder_exists = FALSE
    /\ respuesta = ""
    /\ urlIdx = 0
    /\ linkIdx = 0
    /\ file_path = <<>>
    /\ data = <<>>
    /\ probe = "pending"
    /\ header = NoHeader
    /\ df_total_size = 0
    /\ path = "none"
    /\ total_size = 0
    /\ ranges = <<>>
    /\ futures = <<>>
    /\ parts = <<>>
    /\ order = <<>>
    /\ pbar = NoPbar
    /\ resp = <<>>
    /\ fs = NoFiles
    /\ k = 0
    /\ copied = <<>>
    /\ removed = <<>>
    /\ exc = "none"
    /\ result = "none"

(* ------------------------ directories and lists ----------------------- *)
\* Variant: the function returns True whatever was answered.
check_or_create_directory_always_true(exists) ==
    IF exists
    THEN {[ok |-> TRUE, exists |-> TRUE, answer |-> ""]}
    ELSE {[ok |-> TRUE, exists |-> (typed = "y"), answer |-> typed] :
             typed \in {"y", "n"}}

\* check_or_create_directory: the outcomes for a path that exists or not.
\* ok is the value returned, exists whether the path exists afterwards.
\* answer is what was typed at the prompt, "" when there was no prompt.
check_or_create_directory(exists) ==
    IF exists
    THEN {[ok |-> TRUE, exists |-> TRUE, answer |-> ""]}
    ELSE {[ok |-> (typed = "y"), exists |-> (typed = "y"), answer |-> typed] :
             typed \in {"y", "n"}}

\* The number of directory URLs the run was given.
UrlCount == IF mode = "url" THEN 1 ELSE NumUrls

\* __main__: --url calls download_directory, --input calls process_urls.
Main ==
    /\ pc = "main"
    /\ IF mode = "url"
       THEN /\ pc' = "dd_check"
            /\ urlIdx' = 1
            /\ folder_exists' \in (IF base_exists THEN BOOLEAN ELSE {FALSE})
       ELSE /\ pc' = "pu_check"
            /\ UNCHANGED <<urlIdx, folder_exists>>
    /\ UNCHANGED <<argVars, base_exists, respuesta, linkIdx, jobVars>>

\* process_urls, lines 128-132.
ProcessUrlsStart ==
    /\ pc = "pu_check"
    /\ \E o \in check_or_create_directory(base_exists) :
          /\ base_exists' = o.exists
          /\ respuesta' = o.answer
          /\ pc' = IF o.ok THEN "pu_loop" ELSE "done"
    /\ UNCHANGED <<argVars, folder_exists, urlIdx, linkIdx, jobVars>>

\* process_urls, lines 134-146: one turn of `for url in urls`.
ProcessUrlsNext ==
    /\ pc = "pu_loop"
    /\ IF urlIdx = NumUrls
       THEN /\ pc' = "done"
            /\ UNCHANGED <<urlIdx, folder_exists, respuesta>>
       ELSE /\ urlIdx' = urlIdx + 1
            /\ \E before \in BOOLEAN :
               \E o \in check_or_create_directory(before) :
                  /\ folder_exists' = o.exists
                  /\ respuesta' = o.answer
                  /\ pc' = IF o.ok THEN "dd_check" ELSE "pu_loop"
    /\ UNCHANGED <<argVars, base_exists, linkIdx, jobVars>>

\* Where download_directory returns to.
Caller == IF mode = "url" THEN "done" ELSE "pu_loop"

\* download_directory, lines 108-109.
DownloadDirectoryCheck ==
    /\ pc = "dd_check"
    /\ \E o \in check_or_create_directory(folder_exists) :
          /\ folder_exists' = o.exists
          /\ respuesta' = o.answer
          /\ pc' = IF o.ok THEN "dd_list" ELSE Caller
    /\ UNCHANGED <<argVars, base_exists, urlIdx, linkIdx, jobVars>>

\* download_directory, lines 111-112: the listing request.  requests.get
\* raises when the server cannot be reached; nothing catches it.
DownloadDirectoryList ==
    /\ pc = "dd_list"
    /\ \E raised \in BOOLEAN :
          IF raised
          THEN pc' = "crashed" /\ UNCHANGED linkIdx
          ELSE pc' = "dd_loop" /\ linkIdx' = 0
    /\ UNCHANGED <<argVars, base_exists, folder_exists, respuesta, urlIdx, jobVars>>

\* download_directory, lines 114-123: one turn of `for link in ...`, up to
\* the call of download_file.
DownloadDirectoryNext ==
    /\ pc = "dd_loop"
    /\ IF linkIdx = NumLinks
       THEN /\ pc' = Caller
            /\ UNCHANGED <<linkIdx, jobVars>>
       ELSE /\ linkIdx' = linkIdx + 1
            /\ \E file_name \in Hrefs :
                  IF skip_link(file_name)
                  THEN pc' = "dd_loop" /\ UNCHANGED jobVars
                  ELSE /\ pc' = "df"
                       /\ \E len \in 0..MaxLen : JobReset(file_name, Bytes(len))
    /\ UNCHANGED <<argVars, base_exists, folder_exists, respuesta, urlIdx>>

\* download_directory, lines 124-125: the per-resource handler.
Except ==
    /\ pc = "dd_except"
    /\ pc' = "dd_loop"
    /\ result' = "failed"
    /\ UNCHANGED <<argVars, batchVars, file_path, data, probeVars, multiVars,
                   pbar, resp, fs, combineVars, exc>>

\* An exception raised inside download_file at `site`.
Raise(site) ==
    /\ pc' = "dd_except"
    /\ exc' = site

(* ---------------------------- download_file --------------------------- *)
\* Variants of the branch condition: the boundary taken as small, and a
\* zero total taken as large.
use_single_thread_le(total) == total <= Threshold
use_single_thread_nonzero(total) == 0 < total /\ total < Threshold

\* download_file, line 100: the branch condition
use_single_thread(total) == total < Threshold

\* download_file, lines 97-105, up to the call of the chosen function.
\* requests.head raises when the server cannot be reached.
DownloadFile ==
    /\ pc = "df"
    /\ \/ /\ probe' = "raised"
          /\ Raise("head")
          /\ UNCHANGED <<header, df_total_size, path>>
       \/ \E h \in HeadAnswers(data) :
             /\ probe' = "answered"
             /\ header' = h
             /\ df_total_size' = content_length(h)
             /\ IF use_single_thread(content_length(h))
                THEN path' = "single" /\ pc' = "st_get"
                ELSE path' = "multi" /\ pc' = "mt_head"
             /\ UNCHANGED exc
    /\ UNCHANGED <<argVars, batchVars, file_path, data, multiVars, pbar, resp,
                   fs, combineVars, result>>

(* --------------------- download_file_single_thread -------------------- *)
\* Lines 82-84: the GET, raise_for_status and the total for the bar.
SingleGet ==
    /\ pc = "st_get"
    /\ \/ /\ Raise("get")
          /\ UNCHANGED <<resp, pbar>>
       \/ \E h \in {NoHeader, Len(data)} :
             /\ resp' = data
             /\ pbar' = [total |-> content_length(h), n |-> 0]
             /\ pc' = "st_open"
             /\ UNCHANGED exc
    /\ UNCHANGED <<argVars, batchVars, file_path, data, probeVars, multiVars,
                   fs, combineVars, result>>

\* Line 86: open(file_path, 'wb').
SingleOpen ==
    /\ pc = "st_open"
    /\ fs' = Create(fs, file_path)
    /\ pc' = "st_iter"
    /\ UNCHANGED <<argVars, batchVars, file_path, data, probeVars, multiVars,
                   pbar, resp, combineVars, exc, result>>

\* Lines 88-90 run to the end of the body: every piece is written and
\* counted, and download_file returns.
SingleIter ==
    /\ pc = "st_iter"
    /\ fs' = WriteBytes(fs, file_path, resp)
    /\ pbar' = pbar_update(pbar, Len(resp))
    /\ pc' = "dd_loop"
    /\ result' = "ok"
    /\ UNCHANGED <<argVars, batchVars, file_path, data, probeVars, multiVars,
                   resp, combineVars, exc>>

\* Lines 88-90 cut short: the connection breaks after j pieces.
SingleIterError ==
    /\ pc = "st_iter"
    /\ \E j \in 0..(NumChunks(resp, chunk_size_8192) - 1) :
          LET got == FirstChunks(resp, chunk_size_8192, j)
          IN  /\ fs' = WriteBytes(fs, file_path, got)
              /\ pbar' = pbar_update(pbar, Len(got))
    /\ Raise("stream")
    /\ UNCHANGED <<argVars, batchVars, file_path, data, probeVars, multiVars,
                   resp, combineVars, result>>

(* ---------------------- download_file_multithread --------------------- *)
\* Lines 55-62: the second HEAD, the ranges and the empty parts list.
MultiHead ==
    /\ pc = "mt_head"
    /\ \/ /\ Raise("head")
          /\ UNCHANGED <<total_size, ranges, parts>>
       \/ \E h \in HeadAnswers(data) :
             /\ total_size' = content_length(h)
             /\ ranges' = RangePlan(content_length(h), num_threads)
             /\ parts' = [i \in 1..num_threads |-> None]
             /\ pc' = "mt_submit"
             /\ UNCHANGED exc
    /\ UNCHANGED <<argVars, batchVars, file_path, data, probeVars, futures,
                   order, pbar, resp, fs, combineVars, result>>

\* Variant: every submit is given the first range and part number 0.
next_ordinal_stuck(futs) == 0

\* Line 65: the index enumerate(ranges) gives the next submit
next_ordinal(futs) == Len(futs)

\* Lines 65-66: one executor.submit; the last one is followed by line 68,
\* which makes the progress bar.
Submit ==
    /\ pc = "mt_submit"
    /\ Len(futures) < num_threads
    /\ LET i == next_ordinal(futures)
       IN  /\ i < num_threads
           /\ futures' = futures \o
                 << [st |-> "running", start |-> ranges[i + 1][1],
                     end |-> ranges[i + 1][2], part_number |-> i,
                     body |-> <<>>] >>
           /\ IF Len(futures) + 1 = num_threads
              THEN pc' = "mt_wait" /\ pbar' = [total |-> total_size, n |-> 0]
              ELSE UNCHANGED <<pc, pbar>>
    /\ UNCHANGED <<argVars, batchVars, file_path, data, probeVars, total_size,
                   ranges, parts, order, resp, fs, combineVars, exc, result>>

\* download_chunk, lines 34-42, in a pool thread: the ranged GET,
\* raise_for_status and the opening of the part file.
ChunkRequest(i) ==
    /\ i \in 1..Len(futures)
    /\ futures[i].st = "running"
    /\ \E a \in RangeAnswers(data, futures[i].start, futures[i].end) :
          IF a.ok
          THEN /\ futures' = [futures EXCEPT ![i].st = "writing", ![i].body = a.body]
               /\ fs' = Create(fs, part_file(file_path, futures[i].part_number))
          ELSE /\ futures' = [futures EXCEPT ![i].st = "failed"]
               /\ UNCHANGED fs
    /\ UNCHANGED <<pc, argVars, batchVars, file_path, data, probeVars,
                   total_size, ranges, parts, order, pbar, resp, combineVars,
                   exc, result>>

\* download_chunk, lines 43-45: every piece is written and the call returns.
ChunkWrite(i) ==
    /\ i \in 1..Len(futures)
    /\ futures[i].st = "writing"
    /\ fs' = WriteBytes(fs, part_file(file_path, futures[i].part_number),
                        futures[i].body)
    /\ futures' = [futures EXCEPT ![i].st = "done", ![i].body = <<>>]
    /\ UNCHANGED <<pc, argVars, batchVars, file_path, data, probeVars,
                   total_size, ranges, parts, order, pbar, resp, combineVars,
                   exc, result>>

\* download_chunk, lines 43-44 cut short: the connection breaks after j
\* pieces and the call raises.
ChunkWriteError(i) ==
    /\ i \in 1..Len(futures)
    /\ futures[i].st = "writing"
    /\ \E j \in 0..(NumChunks(futures[i].body, chunk_size_8192) - 1) :
          fs' = WriteBytes(fs, part_file(file_path, futures[i].part_number),
                           FirstChunks(futures[i].body, chunk_size_8192, j))
    /\ futures' = [futures EXCEPT ![i].st = "failed", ![i].body = <<>>]
    /\ UNCHANGED <<pc, argVars, batchVars, file_path, data, probeVars,
                   total_size, ranges, parts, order, pbar, resp, combineVars,
                   exc, result>>

Finished(fut) == fut.st \in {"done", "failed"}

\* Variant: the worker's exception is swallowed.
result_raises_never(fut) == FALSE

\* future.result(): whether it raises
result_raises(fut) == fut.st = "failed"

\* Variant: parts filled in completion order (parts.append(part_file)).
store_part_in_completion_order(ps, part_number, name) ==
    LET j == CHOOSE j \in 1..Len(ps) :
                 ps[j] = None /\ \A m \in 1..(j - 1) : ps[m] # None
    IN  [ps EXCEPT ![j] = name]

\* Line 71: parts[part_number] = part_file
store_part(ps, part_number, name) == [ps EXCEPT ![part_number + 1] = name]

\* The futures as_completed has yet to yield.
Unyielded == {i \in 1..Len(futures) : futures[i].part_number \notin
                 {order[j] : j \in 1..Len(order)}}

\* Lines 69-72: one turn of `for future in as_completed(futures)`; after the
\* last one the bar is closed.  A raising result() leaves the loop.
AsCompleted ==
    /\ pc = "mt_wait"
    /\ \E i \in Unyielded :
          /\ Finished(futures[i])
          /\ order' = order \o <<futures[i].part_number>>
          /\ IF result_raises(futures[i])
             THEN /\ exc' = "chunk"
                  /\ pc' = "mt_exit"
                  /\ UNCHANGED <<parts, pbar>>
             ELSE LET name == part_file(file_path, futures[i].part_number)
                  IN  /\ parts' = store_part(parts, futures[i].part_number, name)
                      /\ pbar' = pbar_update(pbar,
                             IF Exists(fs, name) THEN Len(fs[name]) ELSE 0)
                      /\ pc' = IF Len(order) + 1 = num_threads
                               THEN "mt_exit" ELSE "mt_wait"
                      /\ UNCHANGED exc
    /\ UNCHANGED <<argVars, batchVars, file_path, data, probeVars, total_size,
                   ranges, futures, resp, fs, combineVars, result>>

\* Variant: shutdown(wait=False).
shutdown_returns_at_once(futs) == TRUE

\* executor.shutdown(wait=True): when it returns
shutdown_returns(futs) == \A i \in 1..Len(futs) : Finished(futs[i])

\* Line 63, leaving `with ThreadPoolExecutor`: shutdown(wait=True) returns
\* once every pool thread has finished; then the pending exception goes on
\* to the caller, or combine_parts is called.
ExecutorExit ==
    /\ pc = "mt_exit"
    /\ shutdown_returns(futures)
    /\ pc' = IF exc = "none" THEN "cp_open" ELSE "dd_except"
    /\ UNCHANGED <<argVars, batchVars, jobVars>>

(* ----------------------------- combine_parts -------------------------- *)
\* Line 48: open(file_name, 'wb').
CombineOpen ==
    /\ pc = "cp_open"
    /\ fs' = Create(fs, file_path)
    /\ k' = 1
    /\ pc' = "cp_copy"
    /\ UNCHANGED <<argVars, batchVars, file_path, data, probeVars, multiVars,
                   pbar, resp, copied, removed, exc, result>>

\* Lines 50-51: the part is read and written to the destination; open()
\* raises when the part does not exist.
CombineCopy ==
    /\ pc = "cp_copy"
    /\ IF Exists(fs, parts[k])
       THEN /\ fs' = WriteBytes(fs, file_path, fs[parts[k]])
            /\ copied' = copied \o <<parts[k]>>
            /\ pc' = "cp_remove"
            /\ UNCHANGED exc
       ELSE /\ Raise("io")
            /\ UNCHANGED <<fs, copied>>
    /\ UNCHANGED <<argVars, batchVars, file_path, data, probeVars, multiVars,
                   pbar, resp, k, removed, result>>

\* Variant: the part is left behind.
remove_part_skipped(f, part) == f

\* Line 52: what os.remove(part) leaves of the file system
remove_part(f, part) == Remove(f, part)

\* Line 52 and the next turn of `for part in parts`; after the last part
\* combine_parts and download_file return (line 75).
CombineRemove ==
    /\ pc = "cp_remove"
    /\ fs' = remove_part(fs, parts[k])
    /\ removed' = removed \o <<parts[k]>>
    /\ IF k = Len(parts)
       THEN pc' = "dd_loop" /\ result' = "ok" /\ UNCHANGED k
       ELSE pc' = "cp_copy" /\ k' = k + 1 /\ UNCHANGED result
    /\ UNCHANGED <<argVars, batchVars, file_path, data, probeVars, multiVars,
                   pbar, resp, copied, exc>>

(* ---------------------------- specification --------------------------- *)
Next ==
    \/ Main
    \/ ProcessUrlsStart
    \/ ProcessUrlsNext
    \/ DownloadDirectoryCheck
    \/ DownloadDirectoryList
    \/ DownloadDirectoryNext
    \/ Except
    \/ DownloadFile
    \/ SingleGet
    \/ SingleOpen
    \/ SingleIter
    \/ SingleIterError
    \/ MultiHead
    \/ Submit
    \/ \E i \in 1..MaxThreads : ChunkRequest(i)
    \/ \E i \in 1..MaxThreads : ChunkWrite(i)
    \/ \E i \in 1..MaxThreads : ChunkWriteError(i)
    \/ AsCompleted
    \/ ExecutorExit
    \/ CombineOpen
    \/ CombineCopy
    \/ CombineRemove

Spec == Init /\ [][Next]_vars

(* ------------------------ range planning alone ------------------------ *)
\* Lines 58-60 of download_file_multithread applied to every total size up
\* to MaxTotal and every thread count, apart from the rest of the program.
PlanInit ==
    /\ pc = "plan"
    /\ mode = "url"
    /\ num_threads \in 1..MaxThreads
    /\ total_size \in 0..MaxTotal
    /\ base_exists = TRUE
    /\ folder_exists = TRUE
    /\ respuesta = ""
    /\ urlIdx = 0
    /\ linkIdx = 0
    /\ file_path = <<>>
    /\ data = <<>>
    /\ probe = "pending"
    /\ header = NoHeader
    /\ df_total_size = 0
    /\ path = "none"
    /\ ranges = <<>>
    /\ futures = <<>>
    /\ parts = <<>>
    /\ order = <<>>
    /\ pbar = NoPbar
    /\ resp = <<>>
    /\ fs = NoFiles
    /\ k = 0
    /\ copied = <<>>
    /\ removed = <<>>
    /\ exc = "none"
    /\ result = "none"

Plan ==
    /\ pc = "plan"
    /\ ranges' = RangePlan(total_size, num_threads)
    /\ pc' = "planned"
    /\ UNCHANGED <<argVars, batchVars, file_path, data, probeVars, total_size,
                   futures, parts, order, pbar, resp, fs, combineVars, exc,
                   result>>

PlanNext == Plan

PlanSpec == PlanInit /\ [][PlanNext]_vars

(* ------------------------------ properties ---------------------------- *)
SinglePcs == {"st_get", "st_open", "st_iter"}
CombinePcs == {"cp_open", "cp_copy", "cp_remove"}
MultiPcs == {"mt_head", "mt_submit", "mt_wait", "mt_exit"} \cup CombinePcs
Planned == ranges # <<>>
PartNumbers == 0..(num_threads - 1)
PartPaths == {part_file(file_path, i) : i \in PartNumbers}
SomeChunkFailed == \E i \in 1..Len(futures) : futures[i].st = "failed"

\* C1: the planned ranges start at 0, each begins right after the one before
\* it, the last ends at totalSize - 1, and there are workerCount of them, or
\* one when totalSize is 0.
C1_RangesPartition ==
    Planned =>
        /\ Len(ranges) = (IF total_size = 0 THEN 1 ELSE num_threads)
        /\ ranges[1][1] = 0
        /\ ranges[Len(ranges)][2] = total_size - 1
        /\ \A i \in 1..(Len(ranges) - 1) : ranges[i + 1][1] = ranges[i][2] + 1

\* C2: a probed size below 1,048,576 takes the single-stream path, any
\* other size (1,048,576 itself included) the multi-worker path, and a job
\* is only ever on the path it took.
C2_PathByThreshold ==
    /\ probe = "answered" => path # "none"
    /\ path = "none" => pc \notin (SinglePcs \cup MultiPcs)
    /\ path = "single" =>
          /\ df_total_size < 1048576
          /\ pc \notin MultiPcs
          /\ ~Planned /\ futures = <<>>
    /\ path = "multi" =>
          /\ df_total_size >= 1048576
          /\ pc \notin SinglePcs
          /\ resp = <<>>
C2_BoundaryTakesMulti ==
    df_total_size = 1048576 /\ path = "multi" /\ pc = "mt_head"

\* C3: whatever order the chunk fetchers complete in, combine_parts is given
\* the segment of part number i at position i, and copies them in that order.
C3_AssemblyByOrdinal ==
    pc \in CombinePcs =>
        /\ Len(parts) = num_threads
        /\ \A i \in PartNumbers : parts[i + 1] = part_file(file_path, i)
        /\ \A j \in 1..Len(copied) : copied[j] = part_file(file_path, j - 1)
C3_OutOfOrderCompletion ==
    /\ pc = "cp_remove"
    /\ Len(copied) >= 2
    /\ order[1] > order[2]

\* C4: when the ranges are planned from the real length of the body, a job
\* that succeeds on the multi-worker path leaves exactly the body at the
\* destination.
C4_RoundTrip ==
    (result = "ok" /\ path = "multi" /\ total_size = Len(data)) =>
        (Exists(fs, file_path) /\ fs[file_path] = data)

\* C5: once a chunk fetch of a job has failed, combine_parts is not running
\* and has not run for the job and the destination does not exist; the
\* destination exists only when every chunk fetch succeeded.
C5_NoAssemblyAfterFailure ==
    /\ (path = "multi" /\ SomeChunkFailed) =>
          /\ pc \notin CombinePcs
          /\ ~Exists(fs, file_path)
          /\ copied = <<>>
          /\ result # "ok"
    /\ (path = "multi" /\ Exists(fs, file_path)) =>
          /\ Len(futures) = num_threads
          /\ \A i \in 1..Len(futures) : futures[i].st = "done"
C5_FailedJobWithCompletedSegment ==
    /\ result = "failed" /\ exc = "chunk"
    /\ \E i \in 1..Len(futures) : futures[i].st = "done"
    /\ ~Exists(fs, file_path)

\* C6: once the failure of a multi-worker job has been surfaced, none of the
\* job's .partN files exists.
C6_TemporariesCleaned ==
    (result = "failed" /\ path = "multi") =>
        \A p \in PartPaths : ~Exists(fs, p)

\* C7: when the run ends, every directory URL it was given has been taken
\* up, whatever failed on the way.
C7_BatchContinues ==
    (pc \in {"done", "crashed"} /\ (mode = "input" => base_exists)) =>
        urlIdx = UrlCount

\* C8: a metadata request that raises does not end the job: the size is
\* taken as 0 and the job goes down the single-stream path.
C8_ProbeFailureDegrades ==
    probe = "raised" => (df_total_size = 0 /\ path = "single" /\ exc # "head")

\* C9: a probe without a size header gives totalSize 0 and the single-stream
\* path; no range is planned, no chunk fetch is submitted, and the job can
\* only fail through the transfer itself.
C9_NoHeaderSingleStream ==
    (probe = "answered" /\ header = NoHeader) =>
        /\ df_total_size = 0
        /\ path = "single"
        /\ pc \notin MultiPcs
        /\ ~Planned /\ futures = <<>>
        /\ exc \in {"none", "get", "stream"}
        /\ (result = "ok" => (Exists(fs, file_path) /\ fs[file_path] = data))
C9_NoHeaderJobCompletes ==
    /\ probe = "answered" /\ header = NoHeader
    /\ result = "ok" /\ pbar.total = 0
    /\ Len(data) > 0 /\ fs[file_path] = data

\* C10: combine_parts copies the segments in sequence order, removes a
\* segment only once it has been copied, and after it returns every segment
\* has been removed exactly once and none exists.
C10_CopyThenRemove ==
    /\ pc \in CombinePcs =>
          /\ copied = SubSeq(parts, 1, Len(copied))
          /\ removed = SubSeq(parts, 1, Len(removed))
          /\ Len(copied) = Len(removed) + (IF pc = "cp_remove" THEN 1 ELSE 0)
          /\ \A j \in 1..Len(parts) : Exists(fs, parts[j]) <=> j > Len(removed)
          /\ pc = "cp_remove" =>
                LET dest == fs[file_path]
                    seg == fs[parts[k]]
                IN  /\ Len(dest) >= Len(seg)
                    /\ SubSeq(dest, Len(dest) - Len(seg) + 1, Len(dest)) = seg
    /\ (result = "ok" /\ path = "multi") =>
          /\ removed = parts
          /\ copied = parts
          /\ \A p \in PartPaths :
                /\ ~Exists(fs, p)
                /\ Cardinality({j \in 1..Len(removed) : removed[j] = p}) = 1
C10_AllSegmentsAssembled ==
    /\ result = "ok" /\ path = "multi"
    /\ num_threads >= 2
    /\ Len(removed) = num_threads
    /\ Len(fs[file_path]) >= 2

\* The positions from the listing request of download_directory to the end
\* of the last download_file call for the destination folder.
JobPcs == {"df", "dd_except"} \cup SinglePcs \cup MultiPcs
DownloadPcs == {"dd_list", "dd_loop"} \cup JobPcs

\* C12: the listing request and every file download happen only while the
\* destination folder exists (and, for a list of URLs, the base folder); a
\* "no" at the prompt is followed by neither.
C12_NoDownloadIntoMissingDirectory ==
    /\ pc \in DownloadPcs => folder_exists
    /\ (mode = "input" /\ pc \in ({"pu_loop", "dd_check"} \cup DownloadPcs)) =>
          base_exists
    /\ respuesta = "n" =>
          /\ pc \in {"done", "pu_loop"}
          /\ ~folder_exists \/ ~base_exists
C12_CreatedThenListed ==
    pc = "dd_list" /\ respuesta = "y" /\ folder_exists

\* C11: whenever the destination exists before the job has completed, it is
\* empty or holds the whole body: it never holds part of it.
C11_NoPartialDestination ==
    (Exists(fs, file_path) /\ result # "ok") =>
        (fs[file_path] = <<>> \/ fs[file_path] = data)

InFlight == {i \in 1..Len(futures) : futures[i].st \in {"running", "writing"}}
WaitPcs == {"mt_submit", "mt_wait", "mt_exit"}

\* C13: once the coordinator has seen the first chunk-fetch failure, it can
\* hand the failure to the caller at once, whether or not other chunk
\* fetches are still in flight.
C13_FailureSurfacedWithoutWaiting ==
    (pc = "mt_exit" /\ exc = "chunk") => ENABLED ExecutorExit

\* C14: outside download_file_multithread's pool block no chunk fetch is in
\* flight: when download_file has returned or raised, every chunk fetch of
\* the job has finished, so none runs into the next job.
C14_WorkersFinishedAtReturn ==
    pc \notin WaitPcs => InFlight = {}
C14_FailedJobAllFinished ==
    /\ pc = "dd_loop" /\ result = "failed" /\ exc = "chunk"
    /\ Len(order) < num_threads
    /\ \E i \in 1..Len(futures) :
          /\ futures[i].st = "done"
          /\ futures[i].part_number \notin {order[j] : j \in 1..Len(order)}

\* The bytes of the segments stored in parts so far.
RECURSIVE StoredBytes(_)
StoredBytes(j) ==
    IF j = 0 THEN 0
    ELSE StoredBytes(j - 1) +
         (IF parts[j] # None /\ Exists(fs, parts[j]) THEN Len(fs[parts[j]]) ELSE 0)

\* C15: the progress counter of a multi-worker job never decreases, and it
\* is always the total size of the segments yielded so far, each counted
\* once; when all segments have been yielded it is the size of all of them.
C15_CounterIsSumOfSegments ==
    pc \in {"mt_wait", "mt_exit", "cp_open"} =>
        /\ pbar.total = total_size
        /\ pbar.n = StoredBytes(Len(parts))
        /\ Cardinality({j \in 1..Len(parts) : parts[j] # None}) =
              Len(order) - (IF exc = "chunk" THEN 1 ELSE 0)
        /\ pc = "cp_open" => \A j \in 1..Len(parts) : parts[j] # None
C16_OneFetchPerRange ==
    /\ Len(futures) <= num_threads
    /\ Cardinality(InFlight) <= num_threads
    /\ \A i \in 1..Len(futures) :
          /\ futures[i].part_number = i - 1
          /\ <<futures[i].start, futures[i].end>> = ranges[i]
    /\ pc \in ({"mt_wait", "mt_exit"} \cup CombinePcs) =>
          Len(futures) = num_threads
C16_AllWorkersInFlight ==
    /\ pc = "mt_wait"
    /\ num_threads >= 3
    /\ Cardinality(InFlight) = num_threads

\* C17: while the chunk fetchers of a job run, each one that has opened its
\* segment file has a file of its own, named from the destination path and
\* its ordinal, and none of these names is the destination path.
C17_DistinctSegmentLocations ==
    pc \in WaitPcs =>
        /\ ~Exists(fs, file_path)
        /\ Cardinality(DOMAIN fs) >=
              Cardinality({i \in 1..Len(futures) :
                              futures[i].st \in {"writing", "done"}})
        /\ \A i \in 1..Len(futures) :
              /\ futures[i].st \in {"writing", "done"} =>
                    Exists(fs, part_file(file_path, futures[i].part_number))
              /\ part_file(file_path, futures[i].part_number) # file_path
              /\ \A j \in 1..Len(futures) :
                    i # j => part_file(file_path, futures[i].part_number) #
                             part_file(file_path, futures[j].part_number)
C17_TwoFetchersWriting ==
    /\ pc \in WaitPcs
    /\ \E i, j \in 1..Len(futures) :
          /\ i # j
          /\ futures[i].st = "writing" /\ futures[j].st = "writing"
    /\ Cardinality(DOMAIN fs) >= 2

\* C18: with chunkSize = totalSize div workerCount, range i is
\* [i*chunkSize, (i+1)*chunkSize - 1] for i up to workerCount - 2 and the
\* last range is [(workerCount-1)*chunkSize, totalSize - 1]; 100 bytes for 3
\* workers give [0,32], [33,65], [66,99].
C18_LastRangeAbsorbsRemainder ==
    Planned =>
        LET n == num_threads
            chunkSize == total_size \div n
        IN  /\ Len(ranges) = n
            /\ \A i \in 0..(n - 2) :
                  ranges[i + 1] = <<i * chunkSize, (i + 1) * chunkSize - 1>>
            /\ ranges[n] = <<(n - 1) * chunkSize, total_size - 1>>
            /\ (total_size = 100 /\ n = 3) =>
                  ranges = << <<0, 32>>, <<33, 65>>, <<66, 99>> >>
C18_HundredBytesThreeWorkers ==
    Planned /\ total_size = 100 /\ num_threads = 3 /\ ranges[3] = <<66, 99>>

\* C19: the ranges of a job are planned from the size download_file chose
\* the path with, so from a size of at least 1,048,576.
C19_PlanFromProbedSize ==
    (Planned /\ path = "multi") =>
        (total_size = df_total_size /\ total_size >= 1048576)

\* C20: every range given to download_chunk has 0 <= start <= end <=
\* totalSize - 1.
C20_RangesWellFormed ==
    \A i \in 1..Len(futures) :
        /\ 0 <= futures[i].start
        /\ futures[i].start <= futures[i].end
        /\ futures[i].end <= total_size - 1

====
